---- MODULE Spec2Model ----
(***************************************************************************)
(* Model of backend/main.py: the two request handlers generate_points and  *)
(* generate_mcq, their mock path, their prompt builders, the completion    *)
(* call and the tolerant interpretation of the completion text.            *)
(*                                                                         *)
(* Texts are sequences of lexemes (tokens): punctuation, whitespace,       *)
(* string literals, numbers, null and junk words.  Python strings built    *)
(* by f-strings are sequences of chunks.  JSON values are records of one   *)
(* uniform shape [t, n, s, items].                                         *)
(***************************************************************************)
EXTENDS Integers, Sequences, FiniteSets, TLC

VARIABLES handler, req, OPENAI_KEY, openai, pc, prompt, calls, upstream,
          content, resp

vars ==
    <<handler, req, OPENAI_KEY, openai, pc, prompt, calls, upstream, content, resp>>

(***************************************************************************)
(* Program constants and bounds of the model                               *)
(***************************************************************************)
\* upper bound of the mock question count, range(max(1, min(20, req.count)))
MCQ_MAX == 20
\* upper bound of the mock point count, range(max(1, min(12, max_points)))
POINTS_MAX == 12
\* default of max_points, req.get("max_points", 8)
DEFAULT_MAX_POINTS == 8
\* default of MCQRequest.count
DEFAULT_COUNT == 5

\* requested counts range over -CountBelow .. MCQ_MAX + CountAbove
CountBelow == 2
CountAbove == 2
\* whitespace tokens before and after a completion text: 0 .. MaxPad each
MaxPad == 1
\* longest list of items a completion text holds
MaxItems == 2

(***************************************************************************)
(* JSON values (what json.loads returns, what the handlers return)         *)
(***************************************************************************)
JNull == [t |-> "null", n |-> 0, s |-> <<>>, items |-> <<>>]
JNum(i) == [t |-> "num", n |-> i, s |-> <<>>, items |-> <<>>]
JStr(chunks) == [t |-> "str", n |-> 0, s |-> chunks, items |-> <<>>]
JList(xs) == [t |-> "list", n |-> 0, s |-> <<>>, items |-> xs]
\* one key/value entry of a dict (the key is a string, a sequence of chunks);
\* a dict is the sequence of its entries in insertion order, with no key twice
JPair(k, v) == [t |-> "pair", n |-> 0, s |-> k, items |-> <<v>>]
JObj(pairs) == [t |-> "obj", n |-> 0, s |-> <<>>, items |-> pairs]

PairKey(p) == p.s
PairVal(p) == p.items[1]

\* "k in d"
HasKey(d, k) == \E i \in 1..Len(d.items) : PairKey(d.items[i]) = k

\* d[k]
Lookup(d, k) ==
    PairVal(d.items[CHOOSE i \in 1..Len(d.items) : PairKey(d.items[i]) = k])

\* d.get(k): the value, or None when the key is absent
DictGet(d, k) == IF HasKey(d, k) THEN Lookup(d, k) ELSE JNull

\* d[k] = v as json.loads builds a dict: a repeated key keeps its place and
\* takes the later value
DictSet(pairs, k, v) ==
    IF \E i \in 1..Len(pairs) : PairKey(pairs[i]) = k
    THEN [i \in 1..Len(pairs) |->
            IF PairKey(pairs[i]) = k THEN JPair(k, v) ELSE pairs[i]]
    ELSE Append(pairs, JPair(k, v))

\* Python truthiness, as the "or" chains of the handlers use it
Truthy(v) ==
    CASE v.t = "null" -> FALSE
      [] v.t = "num" -> v.n # 0
      [] v.t = "str" -> v.s # <<>>
      [] v.t = "list" -> v.items # <<>>
      [] v.t = "obj" -> v.items # <<>>
      [] OTHER -> TRUE

\* a or b
PyOr(a, b) == IF Truthy(a) THEN a ELSE b

(***************************************************************************)
(* Tokens of a text                                                        *)
(***************************************************************************)
Tok(k, n, s) == [k |-> k, n |-> n, s |-> s]
WS == Tok("ws", 0, <<" ">>)
LBrace == Tok("punct", 0, <<"{">>)
RBrace == Tok("punct", 0, <<"}">>)
LBracket == Tok("punct", 0, <<"[">>)
RBracket == Tok("punct", 0, <<"]">>)
Colon == Tok("punct", 0, <<":">>)
Comma == Tok("punct", 0, <<",">>)
NullTok == Tok("null", 0, <<"null">>)
NumTok(i) == Tok("num", i, <<>>)
StrTok(chunks) == Tok("str", 0, chunks)
Junk(w) == Tok("junk", 0, <<w>>)

\* str.strip(): drop the leading and the trailing whitespace
RECURSIVE LStrip(_)
LStrip(ts) ==
    IF ts # <<>> /\ Head(ts).k = "ws" THEN LStrip(Tail(ts)) ELSE ts

RECURSIVE RStrip(_)
RStrip(ts) ==
    IF ts # <<>> /\ ts[Len(ts)].k = "ws"
    THEN RStrip(SubSeq(ts, 1, Len(ts) - 1))
    ELSE ts

\* a strip that forgets the trailing whitespace (lstrip)
StripLeftOnly(ts) == LStrip(ts)

Strip(ts) == RStrip(LStrip(ts))

(***************************************************************************)
(* json.loads: a recursive-descent parse of the token sequence             *)
(***************************************************************************)
ParseFail == [ok |-> FALSE, val |-> JNull, rest |-> <<>>]
ParseOk(v, rest) == [ok |-> TRUE, val |-> v, rest |-> rest]

RECURSIVE ParseValue(_)
RECURSIVE ParseElems(_, _)
RECURSIVE ParseMembers(_, _)

\* one value, after optional whitespace
ParseValue(ts) ==
    LET s == LStrip(ts) IN
    IF s = <<>> THEN ParseFail
    ELSE LET h == Head(s)
             r == Tail(s)
         IN CASE h.k = "null" -> ParseOk(JNull, r)
              [] h.k = "num" -> ParseOk(JNum(h.n), r)
              [] h.k = "str" -> ParseOk(JStr(h.s), r)
              [] h = LBracket ->
                    LET a == LStrip(r) IN
                    IF a # <<>> /\ Head(a) = RBracket
                    THEN ParseOk(JList(<<>>), Tail(a))
                    ELSE ParseElems(a, <<>>)
              [] h = LBrace ->
                    LET a == LStrip(r) IN
                    IF a # <<>> /\ Head(a) = RBrace
                    THEN ParseOk(JObj(<<>>), Tail(a))
                    ELSE ParseMembers(a, <<>>)
              [] OTHER -> ParseFail

\* the elements of an array, the opening bracket consumed
ParseElems(ts, acc) ==
    LET e == ParseValue(ts) IN
    IF ~e.ok THEN ParseFail
    ELSE LET a == LStrip(e.rest) IN
         IF a = <<>> THEN ParseFail
         ELSE IF Head(a) = Comma THEN ParseElems(Tail(a), Append(acc, e.val))
         ELSE IF Head(a) = RBracket
              THEN ParseOk(JList(Append(acc, e.val)), Tail(a))
         ELSE ParseFail

\* the members of an object, the opening brace consumed
ParseMembers(ts, acc) ==
    LET a == LStrip(ts) IN
    IF a = <<>> \/ Head(a).k # "str" THEN ParseFail
    ELSE LET key == Head(a).s
             b == LStrip(Tail(a))
         IN IF b = <<>> \/ Head(b) # Colon THEN ParseFail
            ELSE LET e == ParseValue(Tail(b)) IN
                 IF ~e.ok THEN ParseFail
                 ELSE LET c == LStrip(e.rest)
                          more == DictSet(acc, key, e.val)
                      IN IF c = <<>> THEN ParseFail
                         ELSE IF Head(c) = Comma
                              THEN ParseMembers(Tail(c), more)
                         ELSE IF Head(c) = RBrace
                              THEN ParseOk(JObj(more), Tail(c))
                         ELSE ParseFail

\* json.loads(text): [ok, val]; ok = FALSE is json.JSONDecodeError (no value,
\* or extra data after the value)
JsonLoads(ts) ==
    LET e == ParseValue(ts) IN
    IF e.ok /\ LStrip(e.rest) = <<>>
    THEN [ok |-> TRUE, val |-> e.val]
    ELSE [ok |-> FALSE, val |-> JNull]

(***************************************************************************)
(* Serialisation of a JSON value to text (", " and ": " separators)        *)
(***************************************************************************)
RECURSIVE JsonDumps(_)
RECURSIVE DumpItems(_, _)

DumpItems(xs, isObj) ==
    IF xs = <<>> THEN <<>>
    ELSE LET x == Head(xs)
             one == IF isObj
                    THEN <<StrTok(PairKey(x)), Colon, WS>>
                            \o JsonDumps(PairVal(x))
                    ELSE JsonDumps(x)
         IN IF Tail(xs) = <<>> THEN one
            ELSE one \o <<Comma, WS>> \o DumpItems(Tail(xs), isObj)

JsonDumps(v) ==
    CASE v.t = "null" -> <<NullTok>>
      [] v.t = "num" -> <<NumTok(v.n)>>
      [] v.t = "str" -> <<StrTok(v.s)>>
      [] v.t = "list" -> <<LBracket>> \o DumpItems(v.items, FALSE) \o <<RBracket>>
      [] v.t = "obj" -> <<LBrace>> \o DumpItems(v.items, TRUE) \o <<RBrace>>

(***************************************************************************)
(* Request bodies.  A raw field is absent, null, an integer or a string.   *)
(***************************************************************************)
Raw(k, n, s) == [k |-> k, n |-> n, s |-> s]
Absent == Raw("absent", 0, <<>>)
RNull == Raw("null", 0, <<>>)
RInt(i) == Raw("int", i, <<>>)
RStr(chunks) == Raw("str", 0, chunks)

Counts == (0 - CountBelow) .. (MCQ_MAX + CountAbove)

\* int(x): an integer is itself, a string is parsed as a decimal literal
\* (ValueError when it is none), None is a TypeError
PyInt(x) ==
    CASE x.k = "int" -> [ok |-> TRUE, n |-> x.n, exc |-> ""]
      [] x.k = "str" ->
            IF Len(x.s) = 1 /\ \E i \in Counts : ToString(i) = x.s[1]
            THEN [ok |-> TRUE,
                  n |-> CHOOSE i \in Counts : ToString(i) = x.s[1],
                  exc |-> ""]
            ELSE [ok |-> FALSE, n |-> 0, exc |-> "ValueError"]
      [] OTHER -> [ok |-> FALSE, n |-> 0, exc |-> "TypeError"]

\* req.get(key, default) on the body of generate_points
ReqGet(x, default) == IF x.k = "absent" THEN default ELSE x

\* class MCQRequest: the validated body of generate_mcq, defaults applied
MCQRequest(body) ==
    [topic |-> body.topic,
     num |-> ReqGet(body.num, RInt(DEFAULT_COUNT)),
     difficulty |-> ReqGet(body.difficulty, RStr(<<"medium">>)),
     context |-> ReqGet(body.context, RNull)]

\* the text of a field inside an f-string
Fmt(x) ==
    CASE x.k = "str" -> x.s
      [] x.k = "int" -> <<ToString(x.n)>>
      [] OTHER -> <<"None">>

\* "if context:"
HasContext(x) == x.k = "str" /\ x.s # <<>>

Topics == {RStr(<<"Indian Polity">>)}
Contexts == {RNull, RStr(<<>>), RStr(<<"Article 370">>)}
Difficulties == {Absent, RStr(<<"hard">>), RStr(<<"expert">>)}

McqBodies ==
    [topic : Topics,
     num : {RInt(c) : c \in Counts} \cup {Absent},
     difficulty : Difficulties,
     context : Contexts]

PointsBodies ==
    [topic : Topics \cup {Absent},
     num : {RInt(c) : c \in Counts}
             \cup {Absent, RNull, RStr(<<"7">>), RStr(<<"many">>)},
     difficulty : {Absent},
     context : Contexts]

(***************************************************************************)
(* Responses                                                               *)
(***************************************************************************)
NoResponse ==
    [kind |-> "none", status_code |-> 0, request_id |-> "", status |-> "",
     has_result |-> FALSE, result |-> JNull,
     has_raw_text |-> FALSE, raw_text |-> <<>>, detail |-> <<>>]

\* a returned dict with "result"
OkEnvelope(id, result) ==
    [kind |-> "envelope", status_code |-> 200, request_id |-> id,
     status |-> "ok", has_result |-> TRUE, result |-> result,
     has_raw_text |-> FALSE, raw_text |-> <<>>, detail |-> <<>>]

\* a returned dict with "raw_text"
ParseErrorEnvelope(id, text) ==
    [kind |-> "envelope", status_code |-> 200, request_id |-> id,
     status |-> "parse_error", has_result |-> FALSE, result |-> JNull,
     has_raw_text |-> TRUE, raw_text |-> text, detail |-> <<>>]

\* raise HTTPException(status_code=500, detail=f"OpenAI request failed: {e}")
HTTPException(e) ==
    [kind |-> "http_exception", status_code |-> 500, request_id |-> "",
     status |-> "", has_result |-> FALSE, result |-> JNull,
     has_raw_text |-> FALSE, raw_text |-> <<>>,
     detail |-> <<"OpenAI request failed: ", e>>]

\* an exception no handler code catches: the framework answers 500
Unhandled(exc) ==
    [kind |-> "unhandled", status_code |-> 500, request_id |-> "",
     status |-> "", has_result |-> FALSE, result |-> JNull,
     has_raw_text |-> FALSE, raw_text |-> <<>>, detail |-> <<exc>>]

\* "not OPENAI_KEY or not ('openai' in globals() and openai is not None)"
NoCredential == ~OPENAI_KEY \/ ~openai

Max(a, b) == IF a >= b THEN a ELSE b
Min(a, b) == IF a <= b THEN a ELSE b

(***************************************************************************)
(* Mock generators                                                         *)
(***************************************************************************)
MockMarker == "[MOCK]"

\* one element of the mock list of generate_points
MockPoint(i, topic) ==
    JObj(<<JPair(<<"id">>, JNum(i + 1)),
           JPair(<<"text">>,
                 JStr(<<MockMarker, " Key point ", ToString(i + 1), " about ">>
                        \o Fmt(topic))),
           JPair(<<"mnemonic">>, JStr(<<>>))>>)

\* the mock list of generate_points
MockPoints(topic, max_points) ==
    JList([i \in 1..Max(1, Min(POINTS_MAX, max_points)) |->
              MockPoint(i - 1, topic)])

\* make_q(i) of generate_mcq
make_q(i, r) ==
    JObj(<<JPair(<<"id">>, JNum(i)),
           JPair(<<"question">>,
                 JStr(<<MockMarker, " What is a key fact about ">>
                        \o Fmt(r.topic)
                        \o <<"? (mock #", ToString(i), ")">>)),
           JPair(<<"options">>,
                 JList(<<JStr(<<"Option A">>), JStr(<<"Option B">>),
                         JStr(<<"Option C">>), JStr(<<"Option D">>)>>)),
           JPair(<<"answer">>, JStr(<<"Option B">>)),
           JPair(<<"explain">>,
                 JStr(<<"Because of reason ", ToString(i),
                        " - memorize the key phrase for ">>
                        \o Fmt(r.topic) \o <<".">>)),
           JPair(<<"difficulty">>, JStr(Fmt(r.difficulty)))>>)

\* the mock list without the lower clamp: range(min(20, req.count))
MockQuestionsNoFloor(r) ==
    JList([i \in 1..Min(MCQ_MAX, r.num.n) |-> make_q(i, r)])

\* [make_q(i+1) for i in range(max(1, min(20, req.count)))]
MockQuestions(r) ==
    JList([i \in 1..Max(1, Min(MCQ_MAX, r.num.n)) |-> make_q(i, r)])

(***************************************************************************)
(* Prompt builders                                                         *)
(***************************************************************************)
NoPrompt == [system |-> <<>>, user |-> <<>>]

McqTask == "Task: Create exactly "
PointsTask == "\" into up to "

build_mcq_prompt(topic, count, difficulty, context) ==
    LET user == <<McqTask, ToString(count),
                  " multiple-choice questions on the topic: \"">>
                  \o Fmt(topic)
                  \o <<"\".\n\n", "Requirements for each question object: ...",
                       "Output MUST be valid JSON with a top-level key \"questions\"">>
    IN [system |-> <<"You are an expert JKSSB exam writer and teacher. ...",
                     "Always return valid JSON only (no surrounding markdown).">>,
        user |-> IF HasContext(context)
                 THEN <<"Context:\n">> \o context.s
                        \o <<"\n\nPlease prioritize facts from the context above.\n\n">>
                        \o user
                 ELSE user]

build_points_prompt(topic, max_points, context) ==
    LET user == <<"Task: Summarize the topic \"">> \o Fmt(topic)
                  \o <<PointsTask, ToString(max_points),
                       " short bullet points that a JKSSB aspirant can memorize.\n\n",
                       "Return JSON with top-level key \"points\" whose value is an array of objects">>
    IN [system |-> <<"You are an expert JKSSB instructor ...",
                     "Return only valid JSON.">>,
        user |-> IF HasContext(context)
                 THEN <<"Context:\n">> \o context.s \o <<"\n\n">> \o user
                 ELSE user]

(***************************************************************************)
(* Interpretation of the completion text                                   *)
(***************************************************************************)
RequestId == "openai-1"

\* generate_points from "text = ...strip()" to its last return
InterpretPoints(raw) ==
    LET text == Strip(raw)
        loaded == JsonLoads(text)
        parsed == loaded.val
    IN IF ~loaded.ok THEN ParseErrorEnvelope(RequestId, text)
       ELSE IF parsed.t # "obj" THEN Unhandled("AttributeError")
       ELSE LET points == PyOr(DictGet(parsed, <<"points">>),
                               PyOr(DictGet(parsed, <<"result">>), parsed))
            IN IF points.t = "list" THEN OkEnvelope(RequestId, points)
               ELSE OkEnvelope(RequestId, parsed)

\* generate_mcq without the unwrap of a nested "questions"
InterpretMcqNoUnwrap(raw) ==
    LET text == Strip(raw)
        loaded == JsonLoads(text)
        parsed == loaded.val
    IN IF ~loaded.ok THEN ParseErrorEnvelope(RequestId, text)
       ELSE IF parsed.t # "obj" THEN Unhandled("AttributeError")
       ELSE LET questions == PyOr(DictGet(parsed, <<"questions">>),
                                  PyOr(DictGet(parsed, <<"result">>),
                                       PyOr(DictGet(parsed, <<"data">>), parsed)))
            IN IF questions.t = "list" THEN OkEnvelope(RequestId, questions)
               ELSE OkEnvelope(RequestId, parsed)

\* generate_mcq from "text = ...strip()" to its last return
InterpretMcq(raw) ==
    LET text == Strip(raw)
        loaded == JsonLoads(text)
        parsed == loaded.val
    IN IF ~loaded.ok THEN ParseErrorEnvelope(RequestId, text)
       ELSE IF parsed.t # "obj" THEN Unhandled("AttributeError")
       ELSE LET first == PyOr(DictGet(parsed, <<"questions">>),
                              PyOr(DictGet(parsed, <<"result">>),
                                   PyOr(DictGet(parsed, <<"data">>), parsed)))
                questions == IF first.t = "obj" /\ HasKey(first, <<"questions">>)
                             THEN Lookup(first, <<"questions">>)
                             ELSE first
            IN IF questions.t = "list" THEN OkEnvelope(RequestId, questions)
               ELSE OkEnvelope(RequestId, parsed)

(***************************************************************************)
(* Completion texts the model draws from                                   *)
(***************************************************************************)
Keys == {<<"questions">>, <<"points">>, <<"result">>, <<"data">>, <<"notes">>}

\* a list of n items; each item names the key it was put under
ItemList(k, n) ==
    JList([i \in 1..n |->
              JObj(<<JPair(<<"id">>, JNum(i)), JPair(<<"text">>, JStr(k))>>)])

Scalars == {JNull, JNum(0), JNum(1), JStr(<<>>), JStr(<<"s">>)}

\* {k: payload}
Flat ==
    {JObj(<<JPair(k, v)>>) : k \in Keys, v \in Scalars}
        \cup {JObj(<<JPair(k, ItemList(k, n))>>) : k \in Keys, n \in 0..MaxItems}

\* {k1: list, k2: list}
TwoKeys ==
    {JObj(<<JPair(k[1], ItemList(k[1], n[1])), JPair(k[2], ItemList(k[2], n[2]))>>) :
        k \in {kk \in Keys \X Keys : kk[1] # kk[2]},
        n \in {0, 1, MaxItems} \X {0, 1, MaxItems}}

\* {k1: {k2: list}}
Wrapped ==
    {JObj(<<JPair(k1, JObj(<<JPair(k2, ItemList(k2, n))>>))>>) :
        k1 \in Keys, k2 \in Keys, n \in 0..MaxItems}

\* {"result": {k1: {k2: list}}}
Wrapped2 == {JObj(<<JPair(<<"result">>, w)>>) : w \in Wrapped}

Values ==
    Scalars \cup {ItemList(<<"top">>, n) : n \in 0..MaxItems} \cup {JObj(<<>>)}
        \cup Flat \cup TwoKeys \cup Wrapped \cup Wrapped2

\* the text without its whitespace tokens
Compact(ts) == SelectSeq(ts, LAMBDA x : x.k # "ws")

Serialized == {JsonDumps(v) : v \in Values}

\* texts cut short, texts with trailing junk, a repeated key, plain words
Damaged ==
    {SubSeq(d, 1, j) : d \in {JsonDumps(v) : v \in Flat}, j \in 0..3}
        \cup {d \o <<WS, Junk("thanks")>> : d \in {JsonDumps(v) : v \in Flat}}
        \cup {<<Junk("not"), WS, Junk("json")>>,
              <<LBrace, StrTok(<<"points">>), Colon, NumTok(1), Comma,
                StrTok(<<"points">>), Colon>> \o JsonDumps(ItemList(<<"points">>, 1))
                \o <<RBrace>>,
              <<LBracket, NumTok(1), Comma, RBracket>>}

Pad(n) == [i \in 1..n |-> WS]

Texts ==
    {Pad(l) \o t \o Pad(r) :
        t \in Serialized \cup {Compact(d) : d \in Serialized} \cup Damaged,
        l \in 0..MaxPad, r \in 0..MaxPad}

\* the few texts the handlers' specification draws a completion from
SampleTexts ==
    {<<Junk("not"), WS, Junk("json")>>,
     JsonDumps(JObj(<<JPair(<<"questions">>, ItemList(<<"questions">>, 1))>>)),
     JsonDumps(JObj(<<JPair(<<"points">>, ItemList(<<"points">>, 1))>>)),
     JsonDumps(JObj(<<JPair(<<"result">>, ItemList(<<"result">>, 1))>>)),
     <<WS>> \o JsonDumps(JObj(<<JPair(<<"notes">>, JNum(1))>>)),
     JsonDumps(ItemList(<<"top">>, 1)),
     <<WS, LBrace, WS>>}

UpstreamErrors == {"timeout", "rate limit"}

\* what the completion call did: not made yet, returned, or raised e
NotCalled == [outcome |-> "none", error |-> ""]
Returned == [outcome |-> "returned", error |-> ""]
Raised(e) == [outcome |-> "raised", error |-> e]

(***************************************************************************)
(* The handlers                                                            *)
(***************************************************************************)
Credentials == {<<FALSE, FALSE>>, <<TRUE, FALSE>>, <<TRUE, TRUE>>}

Init ==
    /\ handler \in {"mcq", "points"}
    /\ req \in IF handler = "mcq" THEN {MCQRequest(b) : b \in McqBodies}
               ELSE PointsBodies
    /\ \E c \in Credentials : OPENAI_KEY = c[1] /\ openai = c[2]
    /\ pc = "received"
    /\ prompt = NoPrompt
    /\ calls = 0
    /\ upstream = NotCalled
    /\ content = <<>>
    /\ resp = NoResponse

\* generate_points: topic, max_points and context are read off the body
PointsTopic == ReqGet(req.topic, RStr(<<>>))
PointsMax == PyInt(ReqGet(req.num, RInt(DEFAULT_MAX_POINTS)))

\* generate_points: int(req.get("max_points", 8)) raises
PointsBadArgs ==
    /\ handler = "points" /\ pc = "received"
    /\ ~PointsMax.ok
    /\ pc' = "failed"
    /\ resp' = Unhandled(PointsMax.exc)
    /\ UNCHANGED <<handler, req, OPENAI_KEY, openai, prompt, calls, upstream, content>>

\* generate_points without a credential: the mock envelope
PointsMock ==
    /\ handler = "points" /\ pc = "received"
    /\ PointsMax.ok
    /\ NoCredential
    /\ pc' = "responded"
    /\ resp' = OkEnvelope("local-mock-points", MockPoints(PointsTopic, PointsMax.n))
    /\ UNCHANGED <<handler, req, OPENAI_KEY, openai, prompt, calls, upstream, content>>

\* generate_points with a credential: the prompt is built
PointsPrompt ==
    /\ handler = "points" /\ pc = "received"
    /\ PointsMax.ok
    /\ ~NoCredential
    /\ pc' = "prompted"
    /\ prompt' = build_points_prompt(PointsTopic, PointsMax.n, req.context)
    /\ UNCHANGED <<handler, req, OPENAI_KEY, openai, calls, upstream, content, resp>>

\* openai.ChatCompletion.create returns a completion
PointsCall ==
    /\ handler = "points" /\ pc = "prompted"
    /\ \E t \in SampleTexts : content' = t
    /\ calls' = calls + 1
    /\ upstream' = Returned
    /\ pc' = "invoked"
    /\ UNCHANGED <<handler, req, OPENAI_KEY, openai, prompt, resp>>

\* openai.ChatCompletion.create raises
PointsCallRaises ==
    /\ handler = "points" /\ pc = "prompted"
    /\ \E e \in UpstreamErrors : upstream' = Raised(e) /\ resp' = HTTPException(e)
    /\ calls' = calls + 1
    /\ pc' = "failed"
    /\ UNCHANGED <<handler, req, OPENAI_KEY, openai, prompt, content>>

\* the completion text is interpreted and the handler returns
PointsInterpret ==
    /\ handler = "points" /\ pc = "invoked"
    /\ resp' = InterpretPoints(content)
    /\ pc' = IF resp'.kind = "envelope" THEN "responded" ELSE "failed"
    /\ UNCHANGED <<handler, req, OPENAI_KEY, openai, prompt, calls, upstream, content>>

\* generate_mcq without a credential: the mock envelope
McqMock ==
    /\ handler = "mcq" /\ pc = "received"
    /\ NoCredential
    /\ pc' = "responded"
    /\ resp' = OkEnvelope("local-mock-no-key", MockQuestions(req))
    /\ UNCHANGED <<handler, req, OPENAI_KEY, openai, prompt, calls, upstream, content>>

\* generate_mcq with a credential: the prompt is built
McqPrompt ==
    /\ handler = "mcq" /\ pc = "received"
    /\ ~NoCredential
    /\ pc' = "prompted"
    /\ prompt' = build_mcq_prompt(req.topic, req.num.n, req.difficulty, req.context)
    /\ UNCHANGED <<handler, req, OPENAI_KEY, openai, calls, upstream, content, resp>>

\* openai.ChatCompletion.create returns a completion
McqCall ==
    /\ handler = "mcq" /\ pc = "prompted"
    /\ \E t \in SampleTexts : content' = t
    /\ calls' = calls + 1
    /\ upstream' = Returned
    /\ pc' = "invoked"
    /\ UNCHANGED <<handler, req, OPENAI_KEY, openai, prompt, resp>>

\* a handler that answers an upstream failure with the mock list
McqCallRaisesFallsBackToMock ==
    /\ handler = "mcq" /\ pc = "prompted"
    /\ \E e \in UpstreamErrors : upstream' = Raised(e)
    /\ resp' = OkEnvelope("local-mock-no-key", MockQuestions(req))
    /\ calls' = calls + 1
    /\ pc' = "responded"
    /\ UNCHANGED <<handler, req, OPENAI_KEY, openai, prompt, content>>

\* openai.ChatCompletion.create raises
McqCallRaises ==
    /\ handler = "mcq" /\ pc = "prompted"
    /\ \E e \in UpstreamErrors : upstream' = Raised(e) /\ resp' = HTTPException(e)
    /\ calls' = calls + 1
    /\ pc' = "failed"
    /\ UNCHANGED <<handler, req, OPENAI_KEY, openai, prompt, content>>

\* the completion text is interpreted and the handler returns
McqInterpret ==
    /\ handler = "mcq" /\ pc = "invoked"
    /\ resp' = InterpretMcq(content)
    /\ pc' = IF resp'.kind = "envelope" THEN "responded" ELSE "failed"
    /\ UNCHANGED <<handler, req, OPENAI_KEY, openai, prompt, calls, upstream, content>>

Next ==
    \/ PointsBadArgs
    \/ PointsMock
    \/ PointsPrompt
    \/ PointsCall
    \/ PointsCallRaises
    \/ PointsInterpret
    \/ McqMock
    \/ McqPrompt
    \/ McqCall
    \/ McqCallRaises
    \/ McqInterpret

Spec == Init /\ [][Next]_vars

(***************************************************************************)
(* The interpreters alone: a request with a credential whose completion    *)
(* call has returned any of the texts                                      *)
(***************************************************************************)
InitInterp ==
    /\ handler \in {"mcq", "points"}
    /\ req = [topic |-> RStr(<<"Indian Polity">>),
              num |-> RInt(IF handler = "mcq" THEN DEFAULT_COUNT
                           ELSE DEFAULT_MAX_POINTS),
              difficulty |-> IF handler = "mcq" THEN RStr(<<"medium">>) ELSE Absent,
              context |-> RNull]
    /\ OPENAI_KEY = TRUE /\ openai = TRUE
    /\ pc = "invoked"
    /\ prompt = IF handler = "mcq"
                THEN build_mcq_prompt(req.topic, req.num.n, req.difficulty, req.context)
                ELSE build_points_prompt(req.topic, req.num.n, req.context)
    /\ calls = 1
    /\ upstream = Returned
    /\ content \in Texts
    /\ resp = NoResponse

NextInterp == PointsInterpret \/ McqInterpret

SpecInterp == InitInterp /\ [][NextInterp]_vars

(***************************************************************************)
(* Claims                                                                  *)
(***************************************************************************)
Responded == pc = "responded"
Ended == pc \in {"responded", "failed"}
UpperBound == IF handler = "mcq" THEN MCQ_MAX ELSE POINTS_MAX
ModeKey == IF handler = "mcq" THEN <<"questions">> ELSE <<"points">>
TextKey == IF handler = "mcq" THEN <<"question">> ELSE <<"text">>
MockIds == {"local-mock-no-key", "local-mock-points"}

Clamped(n, ub) == IF n < 1 THEN 1 ELSE IF n > ub THEN ub ELSE n

HasMarker(item) ==
    /\ item.t = "obj"
    /\ HasKey(item, TextKey)
    /\ \E i \in 1..Len(Lookup(item, TextKey).s) :
          Lookup(item, TextKey).s[i] = MockMarker

\* C1: without a credential (no key, or the client failed to initialise) a
\* request with an integer count, whatever its value, ends with an "ok"
\* envelope whose result list has max(1, min(upper_bound, count)) items, each
\* carrying the mock marker in its text.
C1_MockLengthAndMarker ==
    (NoCredential /\ req.num.k = "int" /\ pc # "received") =>
        /\ Responded
        /\ resp.kind = "envelope" /\ resp.status = "ok" /\ resp.has_result
        /\ resp.result.t = "list"
        /\ Len(resp.result.items) = Clamped(req.num.n, UpperBound)
        /\ \A i \in 1..Len(resp.result.items) : HasMarker(resp.result.items[i])

\* a mock answer to a count above the upper bound of generate_mcq
C1_Witness ==
    /\ NoCredential /\ Responded /\ handler = "mcq"
    /\ req.num.k = "int" /\ req.num.n > MCQ_MAX
    /\ Len(resp.result.items) = MCQ_MAX

\* the number the prompt carries after its task marker
PromptNumber ==
    LET marker == IF handler = "mcq" THEN McqTask ELSE PointsTask
        i == CHOOSE j \in 1..Len(prompt.user) : prompt.user[j] = marker
    IN prompt.user[i + 1]

\* C2: on both paths the count used lies in [1, upper_bound]: the number of
\* mock items generated, and the number embedded in the prompt sent to the
\* completion service.
C2_CountClampedOnBothPaths ==
    /\ (Responded /\ resp.request_id \in MockIds) =>
          Len(resp.result.items) \in 1..UpperBound
    /\ (prompt # NoPrompt) =>
          \E k \in 1..UpperBound : PromptNumber = ToString(k)

\* C3: when the completion call raises, the request ends in a failure the
\* caller sees (status 500, the detail carrying the underlying message), with
\* no envelope, no mock items, and exactly one completion call made.
C3_UpstreamFailureIsFatal ==
    (upstream.outcome = "raised") =>
        /\ pc = "failed"
        /\ resp.kind = "http_exception" /\ resp.status_code = 500
        /\ resp.status = "" /\ ~resp.has_result /\ resp.result = JNull
        /\ resp.detail = <<"OpenAI request failed: ", upstream.error>>
        /\ calls = 1

\* a generate_mcq request whose one completion call raised "timeout"
C3_Witness ==
    /\ upstream.outcome = "raised" /\ upstream.error = "timeout"
    /\ handler = "mcq" /\ pc = "failed" /\ calls = 1

Unparseable == ~JsonLoads(content).ok

\* C4 as claimed: for a returned text that does not parse, the envelope has
\* status "parse_error", no result, and raw_text equal to the returned text
\* exactly, leading and trailing whitespace included.
C4_RawTextIsReturnedText ==
    (Ended /\ Unparseable) =>
        /\ resp.kind = "envelope" /\ resp.status = "parse_error"
        /\ ~resp.has_result /\ resp.has_raw_text
        /\ resp.raw_text = content

\* C4 as amended: for a returned text that does not parse, the envelope has
\* status "parse_error", no result, and raw_text equal to the returned text
\* without its leading and trailing whitespace.
C4_RawTextIsStrippedText ==
    (Ended /\ Unparseable) =>
        /\ Responded
        /\ resp.kind = "envelope" /\ resp.status = "parse_error"
        /\ ~resp.has_result /\ resp.has_raw_text
        /\ \E l \in 0..Len(content), r \in 0..Len(content) :
              content = Pad(l) \o resp.raw_text \o Pad(r)
        /\ \/ resp.raw_text = <<>>
           \/ /\ Head(resp.raw_text).k # "ws"
              /\ resp.raw_text[Len(resp.raw_text)].k # "ws"

\* an unparseable text with whitespace on both sides has been answered
C4_Witness ==
    /\ Responded /\ Unparseable /\ resp.status = "parse_error"
    /\ Len(content) >= 3
    /\ Head(content).k = "ws" /\ content[Len(content)].k = "ws"
    /\ Len(resp.raw_text) = Len(content) - 2

\* C5: every text the completion service returns, whatever its shape, ends in
\* a normal envelope with status "ok" or "parse_error"; the handler never
\* raises.
C5_ReturnedTextNeverRaises ==
    (upstream.outcome = "returned" /\ pc # "invoked") =>
        /\ Responded
        /\ resp.kind = "envelope"
        /\ resp.status \in {"ok", "parse_error"}

\* C6: without a credential every request ends RESPONDED with the mock
\* envelope, nothing fails or responds before the credential check, and no
\* completion call is made.
C6_CredentialCheckFirst ==
    (NoCredential /\ pc # "received") =>
        /\ Responded
        /\ resp.kind = "envelope" /\ resp.request_id \in MockIds
        /\ calls = 0 /\ upstream = NotCalled

StrField(item, k) == HasKey(item, k) /\ Lookup(item, k).t = "str"

\* the Question contract
IsQuestion(item) ==
    /\ item.t = "obj"
    /\ HasKey(item, <<"id">>) /\ Lookup(item, <<"id">>).t = "num"
    /\ StrField(item, <<"question">>)
    /\ HasKey(item, <<"options">>)
    /\ LET opts == Lookup(item, <<"options">>).items
       IN /\ Lookup(item, <<"options">>).t = "list"
          /\ Len(opts) = 4
          /\ \A i, j \in 1..4 : i # j => opts[i] # opts[j]
          /\ StrField(item, <<"answer">>)
          /\ StrField(item, <<"answer_letter">>)
          /\ \E i \in 1..4 :
                /\ Lookup(item, <<"answer">>) = opts[i]
                /\ Lookup(item, <<"answer_letter">>)
                      = JStr(<<(<<"A", "B", "C", "D">>)[i]>>)
    /\ StrField(item, <<"explain">>)
    /\ HasKey(item, <<"difficulty">>)
    /\ Lookup(item, <<"difficulty">>)
          \in {JStr(<<"easy">>), JStr(<<"medium">>), JStr(<<"hard">>)}
    /\ StrField(item, <<"source_note">>)
    /\ StrField(item, <<"mnemonic">>)

\* C7: every item of the mock question list satisfies the Question contract
\* (integer id, 4 distinct options, answer among them, answer_letter naming
\* it, explain, difficulty in easy/medium/hard, source_note, mnemonic).
C7_MockQuestionContract ==
    (handler = "mcq" /\ Responded /\ resp.request_id \in MockIds) =>
        \A i \in 1..Len(resp.result.items) : IsQuestion(resp.result.items[i])

Parsed == JsonLoads(content).val
ParsedObject == JsonLoads(content).ok /\ Parsed.t = "obj"

\* C8: for a returned text that parses to an object, the payload is the mode
\* field if present, else the "result" field if present, else the object; and
\* when the payload is a sequence, of any length, the envelope is "ok" with
\* result equal to that sequence.  (A top-level array is C5's case.)
C8_FirstPresentField ==
    (Ended /\ ParsedObject) =>
        LET payload == IF HasKey(Parsed, ModeKey) THEN Lookup(Parsed, ModeKey)
                       ELSE IF HasKey(Parsed, <<"result">>)
                            THEN Lookup(Parsed, <<"result">>)
                       ELSE Parsed
        IN payload.t = "list" =>
              /\ resp.kind = "envelope" /\ resp.status = "ok"
              /\ resp.result = payload

\* the parsed object has no mode field and its "result" field is an object
\* that has the mode field, holding a list
WrappedUnderResult ==
    /\ ParsedObject
    /\ ~HasKey(Parsed, ModeKey)
    /\ HasKey(Parsed, <<"result">>)
    /\ Lookup(Parsed, <<"result">>).t = "obj"
    /\ HasKey(Lookup(Parsed, <<"result">>), ModeKey)

\* C9 as claimed: in both modes a mode field one level deeper, as in
\* {"result": {"points": [...]}}, is unwrapped once and its list returned as
\* the result with status "ok".
C9_UnwrapInBothModes ==
    (Ended /\ WrappedUnderResult
        /\ Lookup(Lookup(Parsed, <<"result">>), ModeKey).t = "list") =>
        /\ resp.kind = "envelope" /\ resp.status = "ok"
        /\ resp.result = Lookup(Lookup(Parsed, <<"result">>), ModeKey)

\* C9 as amended: generate_mcq unwraps a "questions" field one level under
\* "result" once: its value is the result if it is a list, and otherwise
\* (also when it is again an object holding "questions") the whole parsed
\* object is the result.  generate_points does not unwrap: the whole parsed
\* object is the result.  The status is "ok" in every case.
C9_UnwrapOnceInMcqOnly ==
    (Ended /\ WrappedUnderResult) =>
        LET inner == Lookup(Lookup(Parsed, <<"result">>), ModeKey)
        IN /\ resp.kind = "envelope" /\ resp.status = "ok"
           /\ resp.result = IF handler = "mcq" /\ inner.t = "list" THEN inner
                            ELSE Parsed

\* generate_mcq has returned the non-empty list found under result.questions
C9_Witness ==
    /\ Ended /\ WrappedUnderResult /\ handler = "mcq"
    /\ resp.result.t = "list" /\ resp.result.items # <<>>
    /\ resp.result = Lookup(Lookup(Parsed, <<"result">>), <<"questions">>)

\* C10: when a returned text yields an "ok" envelope, interpreting the
\* serialisation of that envelope's result again, in the same mode, yields
\* an "ok" envelope with the same result.
C10_InterpretIdempotent ==
    (Ended /\ upstream.outcome = "returned"
        /\ resp.kind = "envelope" /\ resp.status = "ok") =>
        LET again == IF handler = "mcq"
                     THEN InterpretMcq(JsonDumps(resp.result))
                     ELSE InterpretPoints(JsonDumps(resp.result))
        IN /\ again.kind = "envelope" /\ again.status = "ok"
           /\ again.result = resp.result

====
